---- MODULE Spec2Model ----
(***************************************************************************)
(* A model of src/todolist-parcial.ts: the Task entity, the file-backed    *)
(* TaskRepository and the TaskManager with its in-memory cache.            *)
(*                                                                         *)
(* Representation.                                                         *)
(*  - A JavaScript object is a function from property names to values; a   *)
(*    property whose value is undefined is a name outside the DOMAIN (the  *)
(*    program never distinguishes the two: it reads properties, spreads    *)
(*    objects and calls JSON.stringify, which omits undefined).            *)
(*  - An ISO-8601 timestamp is the integer number of time units it names.  *)
(*  - Objects and arrays have identity.  arrs is the heap of arrays, cache *)
(*    and the frames' tasks are references into it (0 is null); an object  *)
(*    carries the property "oid" (its identity, the place <<array, index>> *)
(*    where the heap first holds it) and "proto" ("Task" for an            *)
(*    instance of class Task, "Object" for an object literal or a parsed   *)
(*    record).  Neither is written to the file.                            *)
(*  - Every await is a suspension point: an operation is the sequence of   *)
(*    steps Call, ReadDone, Assign, Body, MkdirDone, WriteDone, Return.    *)
(***************************************************************************)
EXTENDS Integers, Sequences, FiniteSets, TLC

VARIABLES
    file,      \* content of the repository's file
    cache,     \* TaskManager.cache: 0 (null) or a reference into arrs
    arrs,      \* the heap of task arrays
    procs,     \* one frame per caller: the position of its operation
    calls,     \* number of calls made so far; also the clock
    nextUuid,  \* number of uuids generated so far
    overlap,   \* some operation was called while another was in flight
    manager2   \* a second TaskManager on the same file, with its caller

vars == <<file, cache, arrs, procs, calls, nextUuid, overlap, manager2>>

----------------------------------------------------------------------------
(* Bounds *)

\* Number of calls (of Manager operations and of Task methods) in one behaviour.
MaxCalls == 4

\* Number of calls in one behaviour of overlapping operations.
MaxOverlapCalls == 2

\* The callers (each has at most one operation in flight).
Procs == {1, 2}

\* One array per frame plus the cache's.
ArrIds == 1..(Cardinality(Procs) + 1)

----------------------------------------------------------------------------
(* Values *)

GhostKeys == {"oid", "proto"}

DefaultPriority == 3

Uuid(n) == "u" \o ToString(n)

\* Restriction of object r to the keys ks.
Restrict(r, ks) == [k \in (DOMAIN r) \cap ks |-> r[k]]

\* r.k ?? d
Get(r, k, d) == IF k \in DOMAIN r THEN r[k] ELSE d

\* Mutant of InvalidTitle: only a missing title is refused
\* (payload.title === undefined).
InvalidTitleMissingOnly(payload) == ~("title" \in DOMAIN payload)

\* !payload.title || typeof payload.title !== 'string'   (line 50)
InvalidTitle(payload) == ~("title" \in DOMAIN payload) \/ payload.title = ""

\* The fields the Task constructor assigns (lines 54-64), for a valid title.
\* uuid is the value uuidv4() returns, now the clock's value.
TaskFields(payload, uuid, now) ==
    Restrict(payload, {"description", "dueDate"}) @@
    [ id         |-> Get(payload, "id", uuid),
      title      |-> payload.title,
      createdAt  |-> Get(payload, "createdAt", now),
      difficulty |-> Get(payload, "difficulty", "medium"),
      priority   |-> Get(payload, "priority", DefaultPriority),
      status     |-> Get(payload, "status", "todo"),
      tags       |-> Get(payload, "tags", <<>>),
      relatedIds |-> Get(payload, "relatedIds", <<>>),
      deleted    |-> Get(payload, "deleted", FALSE) ]

\* new Task(payload): a fresh object (oid <<0, 0>> until the heap is normalised).
NewTask(payload, uuid, now) ==
    TaskFields(payload, uuid, now) @@ [oid |-> <<0, 0>>, proto |-> "Task"]

\* Mutant of MergeFields: { ...current, ...changes }, the id not restored.
MergeFieldsIdOverwritten(current, changes) ==
    [k \in (DOMAIN current) \cup (DOMAIN changes) |->
        IF k \in DOMAIN changes THEN changes[k] ELSE current[k]]

\* { ...current, ...changes, id: current.id }   (line 215)
MergeFields(current, changes) ==
    [k \in (DOMAIN current) \cup (DOMAIN changes) |->
        IF k = "id" THEN current.id
        ELSE IF k \in DOMAIN changes THEN changes[k]
        ELSE current[k]]

\* The object literal of line 215: a fresh plain object.
Updated(current, changes) ==
    [oid |-> <<0, 0>>, proto |-> "Object"] @@
    MergeFields(Restrict(current, (DOMAIN current) \ GhostKeys), changes)

\* !t.deleted   (line 123)
isNotDeleted(t) == ~Get(t, "deleted", FALSE)

\* Mutant of Stringify: only the tasks that are not deleted are written
\* (JSON.stringify(tasks.filter(isNotDeleted), null, 2)).
StringifyNotDeleted(tasks) ==
    LET kept == SelectSeq(tasks, isNotDeleted)
    IN  [i \in 1..Len(kept) |-> Restrict(kept[i], (DOMAIN kept[i]) \ GhostKeys)]

\* JSON.stringify(tasks, null, 2): the records' own properties, in order.
Stringify(tasks) ==
    [i \in 1..Len(tasks) |-> Restrict(tasks[i], (DOMAIN tasks[i]) \ GhostKeys)]

\* Mutant of MinimalShape: the title is not looked at.
MinimalShapeIdOnly(t) == "id" \in DOMAIN t

\* t && typeof t.id === 'string' && typeof t.title === 'string'   (line 96)
\* (a property that is not text is one the record does not have).
MinimalShape(t) == "id" \in DOMAIN t /\ "title" \in DOMAIN t

\* JSON.parse(data).filter(...): fresh plain objects (oids <<0, 1>>, <<0, 2>>, ...).
ParseFilter(recs) ==
    LET kept == SelectSeq(recs, MinimalShape)
    IN  [i \in 1..Len(kept) |-> kept[i] @@ [oid |-> <<0, i>>, proto |-> "Object"]]

\* The content of the file.
Absent == [kind |-> "absent"]
Corrupt == [kind |-> "corrupt"]
Json(recs) == [kind |-> "json", recs |-> recs]

\* index of the first element of s with the id, 0 when there is none
\* (Array.prototype.findIndex / find).
FindIndex(s, id) ==
    IF \E i \in 1..Len(s) : s[i].id = id
    THEN CHOOSE i \in 1..Len(s) : s[i].id = id /\ \A j \in 1..(i - 1) : s[j].id # id
    ELSE 0

\* t.priority >= 4 && !t.deleted   (line 120)
isHighPriority(t) == "priority" \in DOMAIN t /\ t.priority >= 4 /\ isNotDeleted(t)

\* isOverdue(nowIso)(t)   (lines 114-117)
isOverdue(now, t) == "dueDate" \in DOMAIN t /\ t.dueDate < now

\* predicate.relatedTo(id)(t)   (line 172)
relatedTo(id, t) ==
    "relatedIds" \in DOMAIN t /\ \E i \in 1..Len(t.relatedIds) : t.relatedIds[i] = id

\* The titles, in the order of String.prototype.localeCompare.
TitleOrder == <<"", "t1", "t2", "t3">>

\* a.localeCompare(b)
localeCompare(a, b) ==
    (CHOOSE i \in 1..Len(TitleOrder) : TitleOrder[i] = a) -
    (CHOOSE i \in 1..Len(TitleOrder) : TitleOrder[i] = b)

\* The comparators of lines 126-136.  A difference with NaN (the time of an
\* undefined date, Infinity - Infinity) is NaN, which sort takes as 0.
byTitle(a, b) == localeCompare(a.title, b.title)

byCreation(a, b) ==
    IF "createdAt" \in DOMAIN a /\ "createdAt" \in DOMAIN b
    THEN a.createdAt - b.createdAt ELSE 0

\* Mutant of byDueDate: a task without due date counts as time 0
\* (new Date(a.dueDate ?? 0).getTime()).
byDueDateZero(a, b) == Get(a, "dueDate", 0) - Get(b, "dueDate", 0)

byDueDate(a, b) ==
    CASE "dueDate" \notin DOMAIN a /\ "dueDate" \notin DOMAIN b -> 0
      [] "dueDate" \notin DOMAIN a -> 1
      [] "dueDate" \notin DOMAIN b -> -1
      [] OTHER -> a.dueDate - b.dueDate

\* difficultyRank, lines 138-149.
difficultyRank(d) ==
    CASE d = "low" -> 1
      [] d = "medium" -> 2
      [] d = "high" -> 3
      [] OTHER -> 2

byDifficulty(a, b) ==
    difficultyRank(Get(a, "difficulty", "undefined")) -
    difficultyRank(Get(b, "difficulty", "undefined"))

\* The comparator of each sort.
Compare(key, a, b) ==
    CASE key = "title" -> byTitle(a, b)
      [] key = "createdAt" -> byCreation(a, b)
      [] key = "dueDate" -> byDueDate(a, b)
      [] key = "difficulty" -> byDifficulty(a, b)

\* [...tasks].sort(comparator): a new array, the stable sort of tasks by the
\* comparator (an element goes after those that compare lower, and after the
\* earlier ones that compare equal).
SortBy(tasks, key) ==
    LET n == Len(tasks)
        before(i) == {j \in 1..n : \/ Compare(key, tasks[j], tasks[i]) < 0
                                   \/ Compare(key, tasks[j], tasks[i]) = 0 /\ j < i}
    IN  [k \in 1..n |-> tasks[CHOOSE i \in 1..n : Cardinality(before(i)) = k - 1]]

sortByTitle(tasks) == SortBy(tasks, "title")
sortByCreation(tasks) == SortBy(tasks, "createdAt")
sortByDueDate(tasks) == SortBy(tasks, "dueDate")
sortByDifficulty(tasks) == SortBy(tasks, "difficulty")

\* list, lines 243-261.
list(tasks, options) ==
    LET result == IF Get(options, "includeDeleted", FALSE) THEN tasks
                  ELSE SelectSeq(tasks, isNotDeleted)
        sortBy == Get(options, "sortBy", "undefined")
    IN  CASE sortBy = "title" -> sortByTitle(result)
          [] sortBy = "createdAt" -> sortByCreation(result)
          [] sortBy = "dueDate" -> sortByDueDate(result)
          [] sortBy = "difficulty" -> sortByDifficulty(result)
          [] OTHER -> result

\* Mutant of statsTotal: the deleted tasks are counted too (tasks.length).
statsTotalAll(tasks) == Len(tasks)

\* statsTotal, line 152.
statsTotal(tasks) == Len(SelectSeq(tasks, isNotDeleted))

\* tasks.reduce((acc, t) => { acc[t[k]] = (acc[t[k]] || 0) + 1; return acc }, acc)
\* (lines 156-159 and 164-167); an undefined t[k] is the key "undefined".
RECURSIVE Tally(_, _, _)
Tally(tasks, k, acc) ==
    IF tasks = <<>> THEN acc
    ELSE LET key == Get(Head(tasks), k, "undefined")
         IN  Tally(Tail(tasks), k, [x \in {key} |-> Get(acc, key, 0) + 1] @@ acc)

statsByStatus(tasks) == Tally(SelectSeq(tasks, isNotDeleted), "status", <<>>)
statsByDifficulty(tasks) == Tally(SelectSeq(tasks, isNotDeleted), "difficulty", <<>>)

\* The object statistics returns, lines 267-272.
statistics(all) ==
    [ total        |-> statsTotal(all),
      byStatus     |-> statsByStatus(all),
      byDifficulty |-> statsByDifficulty(all) ]

\* The arrays highPriority, overdue and relatedTasks return (lines 278, 284, 289).
highPriority(tasks) == SelectSeq(tasks, isHighPriority)
overdue(tasks, now) ==
    SelectSeq(SelectSeq(tasks, LAMBDA t : isOverdue(now, t)), isNotDeleted)
relatedTasks(tasks, id) == SelectSeq(tasks, LAMBDA t : relatedTo(id, t))

----------------------------------------------------------------------------
(* The heap *)

\* The arrays some reference reaches: the cache's and the frames'.
Live(c, P) == ({c} \cup {P[p].tasks : p \in Procs}) \ {0}

\* The place of the first occurrence of object o in heap A.
FirstKey(A, o) ==
    LET r == CHOOSE r \in ArrIds :
                 /\ \E i \in 1..Len(A[r]) : A[r][i].oid = o
                 /\ \A q \in ArrIds : q < r => \A i \in 1..Len(A[q]) : A[q][i].oid # o
        i == CHOOSE i \in 1..Len(A[r]) :
                 A[r][i].oid = o /\ \A j \in 1..(i - 1) : A[r][j].oid # o
    IN  <<r, i>>

\* Heap A after garbage collection, identities renamed to their first places.
Normal(A, c, P) ==
    LET G == [r \in ArrIds |-> IF r \in Live(c, P) THEN A[r] ELSE <<>>]
    IN  [r \in ArrIds |->
            [i \in 1..Len(G[r]) |-> [G[r][i] EXCEPT !.oid = FirstKey(G, @)]]]

\* An array reference no frame holds (the cache's reference is being replaced).
FreeRef(P) == CHOOSE r \in ArrIds :
    r \notin {P[p].tasks : p \in Procs} /\
    \A q \in ArrIds : q < r => q \in {P[p].tasks : p \in Procs}

\* The in-place mutation of object o: every array that holds it sees it.
MutateObject(A, o, k, v) ==
    [r \in ArrIds |->
        [i \in 1..Len(A[r]) |->
            IF A[r][i].oid = o THEN [x \in {k} |-> v] @@ A[r][i] ELSE A[r][i]]]

\* The tasks of the cache (the empty sequence while unloaded).
CacheTasks == IF cache = 0 THEN <<>> ELSE arrs[cache]

----------------------------------------------------------------------------
(* Inputs *)

\* Payloads of add: without a title, with an empty title, with only a title,
\* with a caller-supplied id and createdAt.
Payloads ==
    { [id |-> "a"],
      [title |-> ""],
      [title |-> "t1"],
      [id |-> "a", title |-> "t2", createdAt |-> 0] }

\* Changes of update.
Changes ==
    { [title |-> "t3"],
      [title |-> ""],
      [id |-> "b", createdAt |-> 9],
      [deleted |-> FALSE] }

\* Ids the callers ask for: a caller-supplied one, one no task ever has, the
\* first generated one.
IdArgs == {"a", "b", Uuid(1)}

----------------------------------------------------------------------------
(* Frames *)

NoResult == [kind |-> "none"]
Undefined == [kind |-> "undefined"]
Bool(b) == [kind |-> "bool", bool |-> b]
TaskResult(t) == [kind |-> "task", task |-> Restrict(t, (DOMAIN t) \ GhostKeys)]
Error(e) == [kind |-> "error", error |-> e]
TasksResult(ts) ==
    [kind |-> "tasks", tasks |-> [i \in 1..Len(ts) |-> Restrict(ts[i], (DOMAIN ts[i]) \ GhostKeys)]]
Stats(st) == [kind |-> "stats", stats |-> st]

\* A frame: pc is the await the operation is suspended at, op, id and arg the
\* call, tasks the array writeAll was given, data the text read or to be
\* written, prevLen hardDelete's local.  The other fields record the call for
\* the properties: preFile is the file when the operation was called, pre the
\* cache's tasks when its body started, loads and writes count the readAll
\* calls of loadIfNeeded and the writeAll calls, res is the settled result,
\* prev is the last operation the caller awaited before this one that failed
\* in writeAll, when no writeAll and no reload has succeeded since.
NoPrev == [op |-> "none"]

Idle ==
    [ pc |-> "idle", op |-> "none", id |-> "", arg |-> <<>>, tasks |-> 0,
      data |-> <<>>, prevLen |-> 0, pre |-> <<>>, preFile |-> Absent,
      loads |-> 0, writes |-> 0, res |-> NoResult, prev |-> NoPrev ]

\* What the next operation's frame records of frame f.
Prev(f) ==
    IF f.res = Error("write")
    THEN [op |-> f.op, id |-> f.id, arg |-> f.arg, pre |-> f.pre]
    ELSE IF f.writes = 0 /\ (f.op # "reload" \/ f.res.kind = "error")
    THEN f.prev
    ELSE NoPrev

\* No operation is in flight.
Quiet == \A q \in Procs : procs[q].pc \in {"idle", "done"}

\* The frame of a settled operation: its references are dropped.
Settled(f, r) == [f EXCEPT !.pc = "done", !.res = r, !.tasks = 0, !.data = <<>>]

Init ==
    /\ file \in {Absent, Json(<<>>)}
    /\ cache = 0
    /\ arrs = [r \in ArrIds |-> <<>>]
    /\ procs = [p \in Procs |-> Idle]
    /\ calls = 0
    /\ nextUuid = 0
    /\ overlap = FALSE
    /\ manager2 = [cache |-> 0, tasks |-> <<>>, frame |-> Idle]

----------------------------------------------------------------------------
(* loadIfNeeded, reload and readAll *)

\* Mutant of NeedsLoad: loadIfNeeded reads whatever the cache is.
NeedsLoadAlways(c) == TRUE

\* this.cache === null   (line 184)
NeedsLoad(c) == c = 0

\* Caller p calls operation op.  The operation runs to its first await: reload
\* calls readAll; the others call loadIfNeeded, which calls readAll when the
\* cache is null and returns at once otherwise (lines 183-192).
Call(p, op, id, arg) ==
    /\ calls < MaxCalls
    /\ procs[p].pc \in {"idle", "done"}
    /\ calls' = calls + 1
    /\ overlap' = (overlap \/ ~Quiet)
    /\ procs' = [procs EXCEPT ![p] =
            [Idle EXCEPT !.op = op, !.id = id, !.arg = arg, !.preFile = file,
                         !.prev = Prev(procs[p]),
                         !.pc = IF op = "reload" \/ NeedsLoad(cache)
                                THEN "reading" ELSE "body",
                         !.loads = IF op # "reload" /\ NeedsLoad(cache) THEN 1 ELSE 0]]
    /\ UNCHANGED <<file, cache, arrs, nextUuid, manager2>>

\* Mutant of ReadResult: every error is taken for an absent file
\* (catch { return [] }).
ReadResultEmptyOnError(f, ok) ==
    IF ~ok \/ f.kind # "json" THEN [kind |-> "data", data |-> <<>>]
    ELSE [kind |-> "data", data |-> ParseFilter(f.recs)]

\* readAll's readFile and parse (lines 91-101).  ok = FALSE is a read error
\* other than ENOENT (EACCES, EIO).
ReadResult(f, ok) ==
    IF ~ok \/ f.kind = "corrupt" THEN Error("read")
    ELSE IF f.kind = "absent" THEN [kind |-> "data", data |-> <<>>]
    ELSE [kind |-> "data", data |-> ParseFilter(f.recs)]

ReadDone(p, ok) ==
    /\ procs[p].pc = "reading"
    /\ LET r == ReadResult(file, ok) IN
         procs' = [procs EXCEPT ![p] =
            IF r.kind = "error" THEN Settled(@, r)
            ELSE [@ EXCEPT !.pc = "assign", !.data = r.data]]
    /\ UNCHANGED <<file, cache, arrs, calls, nextUuid, overlap, manager2>>

\* this.cache = await this.repo.readAll()   (lines 185 and 191)
Assign(p) ==
    /\ procs[p].pc = "assign"
    /\ LET P == [procs EXCEPT ![p] =
                    IF @.op = "reload" THEN Settled(@, Undefined)
                    ELSE [@ EXCEPT !.pc = "body", !.data = <<>>]]
           c == FreeRef(P)
       IN  /\ procs' = P
           /\ cache' = c
           /\ arrs' = Normal([arrs EXCEPT ![c] = procs[p].data], c, P)
    /\ UNCHANGED <<file, calls, nextUuid, overlap, manager2>>

----------------------------------------------------------------------------
(* The bodies of the operations: from the resumption after                  *)
(* `await this.loadIfNeeded()` to the next await or to the return           *)

\* The frame when the body starts: the cache's tasks are recorded.
AtBody(f) == [f EXCEPT !.pre = Stringify(CacheTasks)]

\* this.repo.writeAll(this.cache!) runs to `await fs.mkdir` (lines 104-106).
CallWriteAll(f, c) == [f EXCEPT !.pc = "mkdir", !.tasks = c, !.writes = @ + 1]

\* Mutant of Push: this.cache!.concat(t), whose result is dropped.
PushConcat(tasks, t) == tasks

\* this.cache!.push(t)   (line 198)
Push(tasks, t) == Append(tasks, t)

\* add, lines 197-199: the constructor may throw; push; writeAll.  The result
\* records the fields the task has when it is constructed.
AddBody(p) ==
    /\ procs[p].pc = "body" /\ procs[p].op = "add"
    /\ LET f == AtBody(procs[p])
           payload == f.arg
       IN  IF InvalidTitle(payload)
           THEN /\ procs' = [procs EXCEPT ![p] = Settled(f, Error("validation"))]
                /\ UNCHANGED <<arrs, nextUuid>>
           ELSE LET t == NewTask(payload, Uuid(nextUuid + 1), calls)
                    P == [procs EXCEPT ![p] =
                            [CallWriteAll(f, cache) EXCEPT !.res = TaskResult(t)]]
                IN  /\ procs' = P
                    /\ arrs' = Normal([arrs EXCEPT ![cache] = Push(@, t)], cache, P)
                    /\ nextUuid' = IF "id" \in DOMAIN payload
                                   THEN nextUuid ELSE nextUuid + 1
    /\ UNCHANGED <<file, cache, calls, overlap, manager2>>

\* findById, line 206.
FindResult(tasks, id) ==
    IF FindIndex(tasks, id) = 0 THEN Undefined
    ELSE TaskResult(tasks[FindIndex(tasks, id)])

FindByIdBody(p) ==
    /\ procs[p].pc = "body" /\ procs[p].op = "findById"
    /\ procs' = [procs EXCEPT ![p] =
            Settled(AtBody(@), FindResult(CacheTasks, @.id))]
    /\ UNCHANGED <<file, cache, arrs, calls, nextUuid, overlap, manager2>>

\* Mutant of ListBody: the comparator is given to the sort of the cache
\* itself (this.cache!.sort(...) in place of the sort of a copy).
ListBodySortsCache(p) ==
    /\ procs[p].pc = "body" /\ procs[p].op = "list"
    /\ procs' = [procs EXCEPT ![p] =
            Settled(AtBody(@), TasksResult(list(CacheTasks, @.arg)))]
    /\ arrs' = Normal([arrs EXCEPT ![cache] =
            list(@, [includeDeleted |-> TRUE] @@ procs[p].arg)], cache, procs')
    /\ UNCHANGED <<file, cache, calls, nextUuid, overlap, manager2>>

\* list, lines 243-261: the result is the cache itself, a filtered copy or a
\* sorted copy; the cache is not touched.
ListBody(p) ==
    /\ procs[p].pc = "body" /\ procs[p].op = "list"
    /\ procs' = [procs EXCEPT ![p] =
            Settled(AtBody(@), TasksResult(list(CacheTasks, @.arg)))]
    /\ UNCHANGED <<file, cache, arrs, calls, nextUuid, overlap, manager2>>

\* statistics, lines 267-272.
StatisticsBody(p) ==
    /\ procs[p].pc = "body" /\ procs[p].op = "statistics"
    /\ procs' = [procs EXCEPT ![p] =
            Settled(AtBody(@), Stats(statistics(CacheTasks)))]
    /\ UNCHANGED <<file, cache, arrs, calls, nextUuid, overlap, manager2>>

\* highPriority, line 278.
HighPriorityBody(p) ==
    /\ procs[p].pc = "body" /\ procs[p].op = "highPriority"
    /\ procs' = [procs EXCEPT ![p] =
            Settled(AtBody(@), TasksResult(highPriority(CacheTasks)))]
    /\ UNCHANGED <<file, cache, arrs, calls, nextUuid, overlap, manager2>>

\* overdue, lines 283-284: now is the argument, or the clock (new Date()).
OverdueBody(p) ==
    /\ procs[p].pc = "body" /\ procs[p].op = "overdue"
    /\ LET now == IF procs[p].arg = <<>> THEN calls ELSE procs[p].arg.nowIso
       IN  procs' = [procs EXCEPT ![p] =
              Settled(AtBody(@), TasksResult(overdue(CacheTasks, now)))]
    /\ UNCHANGED <<file, cache, arrs, calls, nextUuid, overlap, manager2>>

\* relatedTasks, line 289.
RelatedTasksBody(p) ==
    /\ procs[p].pc = "body" /\ procs[p].op = "relatedTasks"
    /\ procs' = [procs EXCEPT ![p] =
            Settled(AtBody(@), TasksResult(relatedTasks(CacheTasks, @.id)))]
    /\ UNCHANGED <<file, cache, arrs, calls, nextUuid, overlap, manager2>>

\* this.cache![idx] = updated   (lines 214-216)
ReplaceAt(tasks, idx, changes) ==
    [tasks EXCEPT ![idx] = Updated(@, changes)]

\* update, lines 212-217.
UpdateBody(p) ==
    /\ procs[p].pc = "body" /\ procs[p].op = "update"
    /\ LET f == AtBody(procs[p])
           idx == FindIndex(CacheTasks, f.id)
       IN  IF idx = 0
           THEN /\ procs' = [procs EXCEPT ![p] = Settled(f, Undefined)]
                /\ UNCHANGED arrs
           ELSE LET A == [arrs EXCEPT ![cache] = ReplaceAt(@, idx, f.arg)]
                    P == [procs EXCEPT ![p] =
                            [CallWriteAll(f, cache) EXCEPT !.res = TaskResult(A[cache][idx])]]
                IN  /\ procs' = P
                    /\ arrs' = Normal(A, cache, P)
    /\ UNCHANGED <<file, cache, calls, nextUuid, overlap, manager2>>

\* softDelete, lines 224-227: the found object is changed in place.
SoftDeleteBody(p) ==
    /\ procs[p].pc = "body" /\ procs[p].op = "softDelete"
    /\ LET f == AtBody(procs[p])
           idx == FindIndex(CacheTasks, f.id)
       IN  IF idx = 0
           THEN /\ procs' = [procs EXCEPT ![p] = Settled(f, Bool(FALSE))]
                /\ UNCHANGED arrs
           ELSE /\ procs' = [procs EXCEPT ![p] =
                        [CallWriteAll(f, cache) EXCEPT !.res = Bool(TRUE)]]
                /\ arrs' = MutateObject(arrs, CacheTasks[idx].oid, "deleted", TRUE)
    /\ UNCHANGED <<file, cache, calls, nextUuid, overlap, manager2>>

\* Mutant of FilterOut: the test is inverted (x.id === id).
FilterOnly(tasks, id) == SelectSeq(tasks, LAMBDA x : x.id = id)

\* this.cache!.filter((x) => x.id !== id)   (line 235)
FilterOut(tasks, id) == SelectSeq(tasks, LAMBDA x : x.id # id)

\* hardDelete, lines 234-236: the cache becomes a new array.
HardDeleteBody(p) ==
    /\ procs[p].pc = "body" /\ procs[p].op = "hardDelete"
    /\ LET f == [AtBody(procs[p]) EXCEPT !.prevLen = Len(CacheTasks)]
           c == FreeRef(procs)
           P == [procs EXCEPT ![p] = CallWriteAll(f, c)]
       IN  /\ procs' = P
           /\ cache' = c
           /\ arrs' = Normal([arrs EXCEPT ![c] = FilterOut(CacheTasks, f.id)], c, P)
    /\ UNCHANGED <<file, calls, nextUuid, overlap, manager2>>

----------------------------------------------------------------------------
(* writeAll *)

\* await fs.mkdir(dir, {recursive: true}) settles (line 106); when it resolves,
\* JSON.stringify(tasks) is evaluated and fs.writeFile is called (line 107).
MkdirDone(p, ok) ==
    /\ procs[p].pc = "mkdir"
    /\ LET f == procs[p]
           P == [procs EXCEPT ![p] =
                    IF ok THEN [f EXCEPT !.pc = "writing", !.data = Stringify(arrs[f.tasks])]
                    ELSE Settled(f, Error("write"))]
       IN  /\ procs' = P
           /\ arrs' = Normal(arrs, cache, P)
    /\ UNCHANGED <<file, cache, calls, nextUuid, overlap, manager2>>

\* Mutant of Written: the records of data that the file does not hold are
\* added to the file's, instead of data replacing the content.
WrittenMerged(f, data, outcome) ==
    CASE outcome = "ok" ->
            IF f.kind = "json"
            THEN Json(f.recs \o SelectSeq(data,
                        LAMBDA r : \A i \in 1..Len(f.recs) : f.recs[i].id # r.id))
            ELSE Json(data)
      [] outcome = "eopen" -> f
      [] outcome = "eio"   -> Corrupt

\* The file after fs.writeFile(path, data) settles with the outcome: "ok", the
\* data replace the content; "eopen", the file could not be opened and keeps its
\* content; "eio", the write failed after the file was truncated.
Written(f, data, outcome) ==
    CASE outcome = "ok"    -> Json(data)
      [] outcome = "eopen" -> f
      [] outcome = "eio"   -> Corrupt

WriteOutcomes == {"ok", "eopen", "eio"}

\* Mutant of WriteDone: a failed write drops the cache
\* (catch { this.cache = null; throw err }).
WriteDoneForgets(p, outcome) ==
    /\ procs[p].pc = "writing"
    /\ file' = Written(file, procs[p].data, outcome)
    /\ cache' = IF outcome = "ok" THEN cache ELSE 0
    /\ LET P == [procs EXCEPT ![p] =
                    IF outcome = "ok" THEN [@ EXCEPT !.pc = "written", !.data = <<>>]
                    ELSE Settled(@, Error("write"))]
       IN  /\ procs' = P
           /\ arrs' = Normal(arrs, cache', P)
    /\ UNCHANGED <<calls, nextUuid, overlap, manager2>>

\* await fs.writeFile(...) settles (line 107).  The write takes effect as a
\* whole when it settles: of two writes in flight, the one that settles last
\* decides the content.
WriteDone(p, outcome) ==
    /\ procs[p].pc = "writing"
    /\ file' = Written(file, procs[p].data, outcome)
    /\ LET P == [procs EXCEPT ![p] =
                    IF outcome = "ok" THEN [@ EXCEPT !.pc = "written", !.data = <<>>]
                    ELSE Settled(@, Error("write"))]
       IN  /\ procs' = P
           /\ arrs' = Normal(arrs, cache, P)
    /\ UNCHANGED <<cache, calls, nextUuid, overlap, manager2>>

\* The value a mutating operation returns after writeAll (lines 200, 218, 228,
\* 237); hardDelete reads the cache again.
ReturnValue(f, tasks) ==
    IF f.op = "hardDelete" THEN Bool(Len(tasks) < f.prevLen) ELSE f.res

Return(p) ==
    /\ procs[p].pc = "written"
    /\ LET P == [procs EXCEPT ![p] = Settled(@, ReturnValue(@, CacheTasks))]
       IN  /\ procs' = P
           /\ arrs' = Normal(arrs, cache, P)
    /\ UNCHANGED <<file, cache, calls, nextUuid, overlap, manager2>>

----------------------------------------------------------------------------
(* The methods of Task, called by whoever holds a Task (lines 68-80) *)

\* The objects of class Task the heap holds.
TaskObjects ==
    UNION {{arrs[r][i].oid : i \in {j \in 1..Len(arrs[r]) : arrs[r][j].proto = "Task"}} :
              r \in ArrIds}

\* The caller has seen the results: the settled frames are idle again.
Seen == [p \in Procs |-> IF procs[p].pc = "done" THEN Idle ELSE procs[p]]

\* A method of Task object o is called, between two operations.
TaskMethod(o, k, v) ==
    /\ o \in TaskObjects
    /\ Quiet
    /\ calls < MaxCalls
    /\ calls' = calls + 1
    /\ arrs' = MutateObject(arrs, o, k, v)
    /\ procs' = Seen
    /\ UNCHANGED <<file, cache, nextUuid, overlap, manager2>>

complete(o) == TaskMethod(o, "status", "done")
softDelete(o) == TaskMethod(o, "deleted", TRUE)
restore(o) == TaskMethod(o, "deleted", FALSE)

----------------------------------------------------------------------------
(* A second TaskManager on the same file (another `new TaskManager(repo)`,   *)
(* in this process or another).  It has its own cache, manager2.cache (0 is *)
(* null) with the array manager2.tasks, and one caller, who calls add; the  *)
(* steps are those of the first manager's add.                               *)

Manager2Add(payload) ==
    /\ calls < MaxCalls
    /\ manager2.frame.pc \in {"idle", "done"}
    /\ calls' = calls + 1
    /\ manager2' = [manager2 EXCEPT !.frame =
            [Idle EXCEPT !.op = "add", !.arg = payload, !.preFile = file,
                         !.pc = IF NeedsLoad(manager2.cache) THEN "reading" ELSE "body",
                         !.loads = IF NeedsLoad(manager2.cache) THEN 1 ELSE 0]]
    /\ UNCHANGED <<file, cache, arrs, procs, nextUuid, overlap>>

Manager2ReadDone(ok) ==
    /\ manager2.frame.pc = "reading"
    /\ LET r == ReadResult(file, ok) IN
         manager2' = [manager2 EXCEPT !.frame =
            IF r.kind = "error" THEN Settled(@, r)
            ELSE [@ EXCEPT !.pc = "assign", !.data = r.data]]
    /\ UNCHANGED <<file, cache, arrs, procs, calls, nextUuid, overlap>>

Manager2Assign ==
    /\ manager2.frame.pc = "assign"
    /\ manager2' = [ cache |-> 1, tasks |-> manager2.frame.data,
                     frame |-> [manager2.frame EXCEPT !.pc = "body", !.data = <<>>] ]
    /\ UNCHANGED <<file, cache, arrs, procs, calls, nextUuid, overlap>>

Manager2AddBody ==
    /\ manager2.frame.pc = "body"
    /\ LET f == [manager2.frame EXCEPT !.pre = Stringify(manager2.tasks)]
           payload == f.arg
       IN  IF InvalidTitle(payload)
           THEN /\ manager2' = [manager2 EXCEPT !.frame = Settled(f, Error("validation"))]
                /\ UNCHANGED nextUuid
           ELSE LET t == NewTask(payload, Uuid(nextUuid + 1), calls)
                IN  /\ manager2' = [manager2 EXCEPT
                            !.tasks = Push(@, t),
                            !.frame = [CallWriteAll(f, 1) EXCEPT !.res = TaskResult(t)]]
                    /\ nextUuid' = IF "id" \in DOMAIN payload
                                   THEN nextUuid ELSE nextUuid + 1
    /\ UNCHANGED <<file, cache, arrs, procs, calls, overlap>>

Manager2MkdirDone(ok) ==
    /\ manager2.frame.pc = "mkdir"
    /\ manager2' = [manager2 EXCEPT !.frame =
            IF ok THEN [@ EXCEPT !.pc = "writing", !.data = Stringify(manager2.tasks)]
            ELSE Settled(@, Error("write"))]
    /\ UNCHANGED <<file, cache, arrs, procs, calls, nextUuid, overlap>>

Manager2WriteDone(outcome) ==
    /\ manager2.frame.pc = "writing"
    /\ file' = Written(file, manager2.frame.data, outcome)
    /\ manager2' = [manager2 EXCEPT !.frame =
            IF outcome = "ok" THEN [@ EXCEPT !.pc = "written", !.data = <<>>]
            ELSE Settled(@, Error("write"))]
    /\ UNCHANGED <<cache, arrs, procs, calls, nextUuid, overlap>>

Manager2Return ==
    /\ manager2.frame.pc = "written"
    /\ manager2' = [manager2 EXCEPT !.frame = Settled(@, @.res)]
    /\ UNCHANGED <<file, cache, arrs, procs, calls, nextUuid, overlap>>

----------------------------------------------------------------------------
(* The specifications *)

add(p, payload) == Call(p, "add", "", payload)
findById(p, id) == Call(p, "findById", id, <<>>)
update(p, id, changes) == Call(p, "update", id, changes)
softDeleteById(p, id) == Call(p, "softDelete", id, <<>>)
hardDelete(p, id) == Call(p, "hardDelete", id, <<>>)
reload(p) == Call(p, "reload", "", <<>>)

\* The caller passes the id of the task its add has just returned to findById;
\* the frame's arg records that task.
findAdded(p) ==
    /\ procs[p].pc = "done" /\ procs[p].op = "add" /\ procs[p].res.kind = "task"
    /\ Call(p, "findById", procs[p].res.task.id, procs[p].res.task)

\* Caller p calls some operation.
CallOp(p) ==
    \/ \E payload \in Payloads : add(p, payload)
    \/ \E id \in IdArgs : findById(p, id)
    \/ findAdded(p)
    \/ \E id \in IdArgs, changes \in Changes : update(p, id, changes)
    \/ \E id \in IdArgs : softDeleteById(p, id)
    \/ \E id \in IdArgs : hardDelete(p, id)
    \/ reload(p)

\* A suspended operation resumes.
Resume(p) ==
    \/ \E ok \in BOOLEAN : ReadDone(p, ok)
    \/ Assign(p)
    \/ AddBody(p)
    \/ FindByIdBody(p)
    \/ UpdateBody(p)
    \/ SoftDeleteBody(p)
    \/ HardDeleteBody(p)
    \/ \E ok \in BOOLEAN : MkdirDone(p, ok)
    \/ \E outcome \in WriteOutcomes : WriteDone(p, outcome)
    \/ Return(p)

MethodCall ==
    \E o \in TaskObjects : complete(o) \/ softDelete(o) \/ restore(o)

callList(p, options) == Call(p, "list", "", options)
callStatistics(p) == Call(p, "statistics", "", <<>>)
callHighPriority(p) == Call(p, "highPriority", "", <<>>)
callOverdue(p, arg) == Call(p, "overdue", "", arg)
callRelatedTasks(p, id) == Call(p, "relatedTasks", id, <<>>)

\* One caller, each operation awaited before the next is called.
Next == CallOp(1) \/ Resume(1) \/ MethodCall

Spec == Init /\ [][Next]_vars

\* Payloads of the tasks that are queried: with and without a due date, of
\* several priorities, difficulties and statuses, deleted or not, related or not.
QueryPayloads ==
    { [title |-> "t2", dueDate |-> 2, priority |-> 5, difficulty |-> "high"],
      [title |-> "t1", status |-> "done", relatedIds |-> <<Uuid(1)>>],
      [title |-> "t3", dueDate |-> 1, priority |-> 4],
      [title |-> "t3", dueDate |-> 1, deleted |-> TRUE] }

\* The options of list.
SortKeys == {"title", "createdAt", "dueDate", "difficulty"}

ListOptions ==
    {<<>>, [includeDeleted |-> TRUE]} \cup
    {[sortBy |-> k] : k \in SortKeys} \cup
    {[includeDeleted |-> TRUE, sortBy |-> k] : k \in SortKeys}

\* The arguments of overdue: none, or a time.
OverdueArgs == {<<>>, [nowIso |-> 2]}

\* The caller adds a task or asks a query.
QueryCall(p) ==
    \/ \E payload \in QueryPayloads : add(p, payload)
    \/ findById(p, Uuid(1))
    \/ \E options \in ListOptions : callList(p, options)
    \/ callStatistics(p)
    \/ callHighPriority(p)
    \/ \E arg \in OverdueArgs : callOverdue(p, arg)
    \/ callRelatedTasks(p, Uuid(1))

QueryResume(p) ==
    \/ \E ok \in BOOLEAN : ReadDone(p, ok)
    \/ Assign(p)
    \/ AddBody(p)
    \/ FindByIdBody(p)
    \/ ListBody(p)
    \/ StatisticsBody(p)
    \/ HighPriorityBody(p)
    \/ OverdueBody(p)
    \/ RelatedTasksBody(p)
    \/ \E ok \in BOOLEAN : MkdirDone(p, ok)
    \/ \E outcome \in WriteOutcomes : WriteDone(p, outcome)
    \/ Return(p)

\* One caller that adds tasks and queries them.
NextQ == QueryCall(1) \/ QueryResume(1)

SpecQ == Init /\ [][NextQ]_vars

\* The first manager's caller adds a task.
Manager1Step ==
    \/ add(1, [title |-> "t1"])
    \/ \E ok \in BOOLEAN : ReadDone(1, ok)
    \/ Assign(1)
    \/ AddBody(1)
    \/ \E ok \in BOOLEAN : MkdirDone(1, ok)
    \/ \E outcome \in WriteOutcomes : WriteDone(1, outcome)
    \/ Return(1)

\* The second manager's caller adds a task.
Manager2Step ==
    \/ Manager2Add([title |-> "t2"])
    \/ \E ok \in BOOLEAN : Manager2ReadDone(ok)
    \/ Manager2Assign
    \/ Manager2AddBody
    \/ \E ok \in BOOLEAN : Manager2MkdirDone(ok)
    \/ \E outcome \in WriteOutcomes : Manager2WriteDone(outcome)
    \/ Manager2Return

\* Two managers on one file, each with a caller who awaits each add.
NextM == Manager1Step \/ Manager2Step

SpecM == Init /\ [][NextM]_vars

\* The payloads and the id of the overlapping calls.
OverlapPayloads == {[title |-> "t1"], [id |-> "a", title |-> "t2", createdAt |-> 0]}

\* Caller p calls some operation, whatever the other callers' operations do.
OverlapCall(p) ==
    \/ \E payload \in OverlapPayloads : calls < MaxOverlapCalls /\ add(p, payload)
    \/ calls < MaxOverlapCalls /\ findById(p, "a")
    \/ calls < MaxOverlapCalls /\ softDeleteById(p, "a")
    \/ calls < MaxOverlapCalls /\ hardDelete(p, "a")
    \/ calls < MaxOverlapCalls /\ reload(p)

OverlapResume(p) ==
    \/ \E ok \in BOOLEAN : ReadDone(p, ok)
    \/ Assign(p)
    \/ AddBody(p)
    \/ FindByIdBody(p)
    \/ SoftDeleteBody(p)
    \/ HardDeleteBody(p)
    \/ \E ok \in BOOLEAN : MkdirDone(p, ok)
    \/ \E outcome \in WriteOutcomes : WriteDone(p, outcome)
    \/ Return(p)

\* Several callers, whose operations interleave at their awaits.
NextC == \E p \in Procs : OverlapCall(p) \/ OverlapResume(p)

SpecC == Init /\ [][NextC]_vars

\* A file written by something else than this program: records with the
\* minimal shape (the second with more fields) and, between them, a record
\* without id and a record without title.
ForeignFile ==
    Json(<< [id |-> "a", title |-> "t2"],
            [title |-> "t1"],
            [id |-> "b"],
            [id |-> "b", title |-> "t3", createdAt |-> 0, deleted |-> TRUE] >>)

InitF ==
    /\ file = ForeignFile
    /\ cache = 0
    /\ arrs = [r \in ArrIds |-> <<>>]
    /\ procs = [p \in Procs |-> Idle]
    /\ calls = 0
    /\ nextUuid = 0
    /\ overlap = FALSE
    /\ manager2 = [cache |-> 0, tasks |-> <<>>, frame |-> Idle]

\* The caller's operations on that file.
ForeignCall(p) ==
    \/ add(p, [title |-> "t1"])
    \/ \E id \in {"a", "b"} : findById(p, id)
    \/ update(p, "b", [title |-> "t3", deleted |-> FALSE])
    \/ softDeleteById(p, "a")
    \/ \E id \in {"a", "b"} : hardDelete(p, id)
    \/ reload(p)

NextF == ForeignCall(1) \/ Resume(1)

SpecF == InitF /\ [][NextF]_vars

\* The same callers on a manager whose cache is loaded already (after a first
\* operation, or reload(), on an empty collection).
InitL ==
    /\ file = Json(<<>>)
    /\ cache = 1
    /\ arrs = [r \in ArrIds |-> <<>>]
    /\ procs = [p \in Procs |-> Idle]
    /\ calls = 0
    /\ nextUuid = 0
    /\ overlap = FALSE
    /\ manager2 = [cache |-> 0, tasks |-> <<>>, frame |-> Idle]

\* Caller p calls a mutating operation, whatever the other callers' do.
MutatingCall(p) ==
    \/ \E payload \in OverlapPayloads : calls < MaxOverlapCalls /\ add(p, payload)
    \/ calls < MaxOverlapCalls /\ softDeleteById(p, "a")
    \/ calls < MaxOverlapCalls /\ hardDelete(p, "a")

MutatingResume(p) ==
    \/ AddBody(p)
    \/ SoftDeleteBody(p)
    \/ HardDeleteBody(p)
    \/ \E ok \in BOOLEAN : MkdirDone(p, ok)
    \/ \E outcome \in WriteOutcomes : WriteDone(p, outcome)
    \/ Return(p)

NextL == \E p \in Procs : MutatingCall(p) \/ MutatingResume(p)

SpecL == InitL /\ [][NextL]_vars

----------------------------------------------------------------------------
(* Vocabulary of the properties *)

\* The fields of ITask (lines 21-33).
Fields ==
    { "id", "title", "description", "createdAt", "dueDate", "difficulty",
      "priority", "status", "tags", "relatedIds", "deleted" }

\* Records a and b have the same value at field k (both undefined, or equal).
SameField(a, b, k) ==
    /\ (k \in DOMAIN a) = (k \in DOMAIN b)
    /\ k \in DOMAIN a => a[k] = b[k]

SameRecord(a, b) == \A k \in Fields : SameField(a, b, k)

\* The same tasks, with the same field values, in the same order.
SameTasks(s, t) ==
    /\ Len(s) = Len(t)
    /\ \A i \in 1..Len(s) : SameRecord(s[i], t[i])

\* Some task of s has the id.
Has(s, id) == \E i \in 1..Len(s) : s[i].id = id

\* The first position of the id in s (s has the id).
First(s, id) == CHOOSE i \in 1..Len(s) : s[i].id = id /\ ~Has(SubSeq(s, 1, i - 1), id)

\* s without the tasks that have the id.
RECURSIVE Without(_, _)
Without(s, id) ==
    IF s = <<>> THEN <<>>
    ELSE IF Head(s).id = id THEN Without(Tail(s), id)
    ELSE <<Head(s)>> \o Without(Tail(s), id)

\* The collection file f stores: an absent file stores the empty collection,
\* a file that does not parse stores none.
Stored(f) ==
    CASE f.kind = "absent" -> <<>>
      [] f.kind = "json" -> f.recs
      [] OTHER -> f

\* The settled frames.
Done(p) == procs[p].pc = "done"
Failed(f) == f.res.kind = "error"
FailedWith(f, e) == f.res.kind = "error" /\ f.res.error = e

\* The operation of frame f changed the collection and returned.
MutationReturned(f) ==
    \/ f.op = "add" /\ f.res.kind = "task"
    \/ f.op = "update" /\ f.res.kind = "task"
    \/ f.op = "softDelete" /\ f.res.kind = "bool" /\ f.res.bool
    \/ f.op = "hardDelete" /\ f.res.kind = "bool"

\* The file holds exactly the tasks of the cache.
Coherent == cache # 0 /\ file.kind = "json" /\ SameTasks(file.recs, CacheTasks)

\* tasks are the tasks pre after the mutation of frame f's operation.
Mutated(f, tasks) ==
    CASE f.op = "add" ->
            /\ Len(tasks) = Len(f.pre) + 1
            /\ SameTasks(SubSeq(tasks, 1, Len(f.pre)), f.pre)
            /\ \A k \in DOMAIN f.arg : tasks[Len(tasks)][k] = f.arg[k]
      [] f.op = "update" ->
            /\ Len(tasks) = Len(f.pre)
            /\ \A i \in 1..Len(tasks) : \A k \in Fields :
                  IF i = First(f.pre, f.id) /\ k \in DOMAIN f.arg /\ k # "id"
                  THEN k \in DOMAIN tasks[i] /\ tasks[i][k] = f.arg[k]
                  ELSE SameField(tasks[i], f.pre[i], k)
      [] f.op = "softDelete" ->
            /\ Len(tasks) = Len(f.pre)
            /\ \A i \in 1..Len(tasks) : \A k \in Fields :
                  IF i = First(f.pre, f.id) /\ k = "deleted"
                  THEN tasks[i].deleted = TRUE
                  ELSE SameField(tasks[i], f.pre[i], k)
      [] f.op = "hardDelete" -> SameTasks(tasks, Without(f.pre, f.id))
      [] OTHER -> FALSE

----------------------------------------------------------------------------
(* C1 *)

\* C1: when add, update on an existing id, softDelete on an existing id or
\* hardDelete, called one after another on one TaskManager, returns
\* successfully, the file holds exactly the tasks of the cache, with the same
\* field values and in the same order.
C1_WriteThrough ==
    \A p \in Procs : Done(p) /\ MutationReturned(procs[p]) => Coherent

\* A soft delete has returned true with two tasks in the cache.
C1_Witness ==
    \E p \in Procs :
        /\ Done(p) /\ procs[p].op = "softDelete" /\ MutationReturned(procs[p])
        /\ Len(CacheTasks) = 2

----------------------------------------------------------------------------
(* C2 *)

\* In the step, the loadIfNeeded of caller p invokes readAll.
LoadReads(p) ==
    /\ procs[p].pc # "reading" /\ procs'[p].pc = "reading"
    /\ procs'[p].op # "reload"

\* A readAll invoked by the loadIfNeeded of caller p has not failed, and its
\* result is not assigned yet.
LoadPending(p) ==
    procs[p].pc \in {"reading", "assign"} /\ procs[p].op # "reload"

\* In the step, the loadIfNeeded of caller p assigns the cache.
LoadAssigns(p) ==
    /\ procs[p].pc = "assign" /\ procs'[p].pc # "assign"
    /\ procs[p].op # "reload"

\* loadIfNeeded invokes readAll only on an unloaded cache and while no other
\* invocation of its is pending, assigns only an unloaded cache, and the cache
\* never becomes unloaded again.
LoadsOnce ==
    /\ \A p \in Procs : LoadReads(p) =>
          cache = 0 /\ \A q \in Procs \ {p} : ~LoadPending(q)
    /\ \A p \in Procs : LoadAssigns(p) => cache = 0
    /\ cache # 0 => cache' # 0

\* C2, as claimed: in every execution, also with several operations in flight
\* at the same time, loadIfNeeded invokes readAll at most once (a second
\* invocation is never made while the cache is populated or another one is
\* pending) and never replaces a cache that has been populated.
C2_LoadsOnceAlways == [][LoadsOnce]_vars

\* C2, amended: the same, in the executions in which each operation is
\* awaited before the next one is called.
C2_LoadsOnceAwaited == [][~overlap' => LoadsOnce]_vars

\* Awaited one after the other, a first call has populated the cache and a
\* second call has gone through its loadIfNeeded without reading.
C2_Witness ==
    /\ ~overlap /\ cache # 0 /\ calls = 2
    /\ \E p \in Procs : procs[p].loads = 1 /\ procs[p].pc = "done"
    /\ \E p \in Procs : procs[p].loads = 0 /\ procs[p].pc = "body"

----------------------------------------------------------------------------
(* C3 *)

\* C3, as claimed: when writeAll fails during add, update, softDelete or
\* hardDelete, the operation fails with that error, the file content is
\* unchanged and the cache keeps the mutation.
C3_FileUnchanged ==
    \A p \in Procs : Done(p) /\ FailedWith(procs[p], "write") =>
        /\ file = procs[p].preFile
        /\ Mutated(procs[p], CacheTasks)

\* C3, amended: when writeAll fails, the operation fails with that error, the
\* cache keeps the mutation, and the file either keeps its content (mkdir or
\* the opening of the file failed) or is left truncated by the failed write.
C3_CacheKeepsMutation ==
    \A p \in Procs : Done(p) /\ FailedWith(procs[p], "write") =>
        /\ file = procs[p].preFile \/ file = Corrupt
        /\ Mutated(procs[p], CacheTasks)

\* An update has failed in writeAll, the file keeping its tasks.
C3_Witness ==
    \E p \in Procs :
        /\ Done(p) /\ FailedWith(procs[p], "write") /\ procs[p].op = "update"
        /\ file.kind = "json" /\ Len(file.recs) > 0
        /\ ~SameTasks(file.recs, CacheTasks)

----------------------------------------------------------------------------
(* C4 *)

\* The negative result of an operation.
Negative(op) == IF op \in {"findById", "update"} THEN Undefined ELSE Bool(FALSE)

\* C4: once the cache is loaded, findById, update, softDelete and hardDelete
\* with an id that is not in the collection return the negative result
\* (undefined, undefined, false, false) and raise no error, also when
\* repository writes may fail.
C4_NotFoundNeverFails ==
    \A p \in Procs :
        /\ Done(p) /\ procs[p].loads = 0
        /\ procs[p].op \in {"findById", "update", "softDelete", "hardDelete"}
        /\ ~Has(procs[p].pre, procs[p].id)
        => procs[p].res = Negative(procs[p].op)

----------------------------------------------------------------------------
(* C5 *)

\* The payload has no title, or an empty one.
NoTitle(payload) == "title" \notin DOMAIN payload \/ payload.title = ""

----------------------------------------------------------------------------
(* C6 *)

\* No two tasks of s have the same id.
UniqueIds(s) == \A i, j \in 1..Len(s) : i # j => s[i].id # s[j].id

\* C6: starting from an empty or absent file, after any sequence of add (with
\* or without a caller-supplied id), update, softDelete and hardDelete, no two
\* tasks of the cache, and no two of the file, have the same id.
C6_UniqueIds ==
    /\ UniqueIds(CacheTasks)
    /\ file.kind = "json" => UniqueIds(file.recs)

----------------------------------------------------------------------------
(* C7 *)

\* Every task of the cache keeps its createdAt in the step.
CreatedAtKept ==
    /\ Len(arrs'[cache']) = Len(arrs[cache])
    /\ \A i \in 1..Len(arrs[cache]) :
          SameField(arrs'[cache'][i], arrs[cache][i], "createdAt")

\* C7: a task keeps the createdAt it was added with through every update
\* (whatever the changes), softDelete, complete and restore.
C7_CreatedAtImmutable ==
    [][ (\/ \E p \in Procs : UpdateBody(p) \/ SoftDeleteBody(p)
         \/ MethodCall) => CreatedAtKept ]_vars

----------------------------------------------------------------------------
(* C8 *)

\* Every task of s has a title, and not the empty one.
Titled(s) == \A i \in 1..Len(s) : "title" \in DOMAIN s[i] /\ s[i].title # ""

\* C8: after any sequence of add and update (whatever the changes), no task of
\* the cache or of the file has an empty or absent title.
C8_TitleNonEmpty ==
    /\ Titled(CacheTasks)
    /\ file.kind = "json" => Titled(file.recs)

----------------------------------------------------------------------------
(* C9 *)

\* C9: update on an existing id replaces the record at its position by the old
\* record overridden by every field of changes except id, leaves the position
\* and all other records as they were and persists the collection (the file
\* holds the cache's tasks when update returns); on an id that does not exist
\* it returns undefined, changes nothing in the cache and does not write.
C9_UpdateFrame ==
    \A p \in Procs :
        LET f == procs[p] IN
        Done(p) /\ f.op = "update" /\ ~FailedWith(f, "read") =>
            IF Has(f.pre, f.id)
            THEN /\ Mutated(f, CacheTasks)
                 /\ f.writes = 1
                 /\ \/ FailedWith(f, "write")
                    \/ /\ f.res.kind = "task"
                       /\ SameRecord(f.res.task, CacheTasks[First(f.pre, f.id)])
                       /\ Coherent
            ELSE /\ f.res = Undefined
                 /\ SameTasks(CacheTasks, f.pre)
                 /\ f.writes = 0
                 /\ file = f.preFile

\* An update whose changes name another id has returned the record, the
\* second of two.
C9_Witness ==
    \E p \in Procs :
        /\ Done(p) /\ procs[p].op = "update" /\ procs[p].res.kind = "task"
        /\ procs[p].arg = [id |-> "b", createdAt |-> 9]
        /\ Len(CacheTasks) = 2
        /\ First(procs[p].pre, procs[p].id) = 2

----------------------------------------------------------------------------
(* C10 *)

\* C10: softDelete on an unknown id returns false; on an id of the collection
\* it returns true, and then no task with that id is in list() while one is in
\* list({includeDeleted: true}).
C10_SoftDeleteHides ==
    \A p \in Procs :
        LET f == procs[p] IN
        Done(p) /\ f.op = "softDelete" /\ ~Failed(f) =>
            IF Has(f.pre, f.id)
            THEN /\ f.res = Bool(TRUE)
                 /\ ~Has(list(CacheTasks, <<>>), f.id)
                 /\ Has(list(CacheTasks, [includeDeleted |-> TRUE]), f.id)
            ELSE f.res = Bool(FALSE)

----------------------------------------------------------------------------
(* C11 *)

\* C11: a hardDelete that returns has returned true and made the collection
\* exactly one task shorter when a task had the id, and has returned false
\* leaving the cache's tasks and the stored collection of the file as they
\* were when no task had it, whatever ids the tasks were added with.
C11_HardDeleteOne ==
    \A p \in Procs :
        LET f == procs[p] IN
        Done(p) /\ f.op = "hardDelete" /\ ~Failed(f) =>
            IF Has(f.pre, f.id)
            THEN /\ f.res = Bool(TRUE)
                 /\ Len(CacheTasks) = Len(f.pre) - 1
                 /\ Len(Stored(file)) = Len(f.pre) - 1
            ELSE /\ f.res = Bool(FALSE)
                 /\ SameTasks(CacheTasks, f.pre)
                 /\ Stored(file) = Stored(f.preFile)

----------------------------------------------------------------------------
(* C12 *)

\* C12: findById called with the id of the task that add has just returned
\* yields a task with the field values of the returned one, whatever the
\* (valid) payload and the collection add was called on.
C12_AddThenFind ==
    \A p \in Procs :
        LET f == procs[p] IN
        Done(p) /\ f.op = "findById" /\ f.arg # <<>> =>
            /\ f.res.kind = "task"
            /\ SameRecord(f.res.task, f.arg)

----------------------------------------------------------------------------
(* C13 *)

\* C13: when a mutating operation has failed in writeAll and the next
\* operation that writes succeeds in writeAll, the file holds exactly the
\* cache's tasks, which are the tasks the failed operation left (its
\* mutation included) after the mutation of the new one; and when a reload
\* succeeds, whether the cache was loaded or not and whatever it held, the
\* cache holds exactly the collection the file stores.
C13_DivergenceRepaired ==
    \A p \in Procs :
        LET f == procs[p] IN
        Done(p) =>
            /\ f.prev # NoPrev /\ MutationReturned(f) =>
                  /\ Coherent
                  /\ Mutated(f, CacheTasks)
                  /\ Mutated(f.prev, f.pre)
            /\ f.op = "reload" /\ ~Failed(f) =>
                  /\ cache # 0
                  /\ Stringify(CacheTasks) = Stored(file)

\* After an add that failed in writeAll, a second add has returned: the cache
\* and the file hold both tasks.
C13_Witness ==
    \E p \in Procs :
        /\ Done(p) /\ procs[p].op = "add" /\ MutationReturned(procs[p])
        /\ procs[p].prev # NoPrev /\ procs[p].prev.op = "add"
        /\ Len(CacheTasks) = 2 /\ Coherent

----------------------------------------------------------------------------
(* C14 *)

\* The positions of the tasks of s that are not deleted.
LivePositions(s) == {i \in 1..Len(s) : ~("deleted" \in DOMAIN s[i] /\ s[i].deleted = TRUE)}

\* The sum of the values of function f.
RECURSIVE SumOf(_)
SumOf(f) ==
    IF DOMAIN f = {} THEN 0
    ELSE LET k == CHOOSE k \in DOMAIN f : TRUE
         IN  f[k] + SumOf([x \in (DOMAIN f) \ {k} |-> f[x]])

\* by maps each value of field k that occurs among the non-deleted tasks of s
\* to the number of those tasks that have it, and has no other key.
CountsOf(by, s, k) ==
    /\ DOMAIN by = {s[i][k] : i \in LivePositions(s)}
    /\ \A v \in DOMAIN by : by[v] = Cardinality({i \in LivePositions(s) : s[i][k] = v})

\* C14: the result of statistics() has total equal to the number of tasks of
\* the cache that are not deleted, byStatus and byDifficulty mapping each
\* status, each difficulty, that occurs among them to its count, with no
\* other key, and the counts of each summing to total.
C14_StatisticsNonDeleted ==
    \A p \in Procs :
        LET f == procs[p] IN
        Done(p) /\ f.op = "statistics" /\ ~Failed(f) =>
            /\ f.res.kind = "stats"
            /\ f.res.stats.total = Cardinality(LivePositions(CacheTasks))
            /\ CountsOf(f.res.stats.byStatus, CacheTasks, "status")
            /\ CountsOf(f.res.stats.byDifficulty, CacheTasks, "difficulty")
            /\ SumOf(f.res.stats.byStatus) = f.res.stats.total
            /\ SumOf(f.res.stats.byDifficulty) = f.res.stats.total

\* statistics() has returned on a cache of three tasks, one of them deleted,
\* the other two of different statuses and difficulties.
C14_Witness ==
    \E p \in Procs :
        /\ Done(p) /\ procs[p].op = "statistics" /\ procs[p].res.kind = "stats"
        /\ Len(CacheTasks) = 3
        /\ procs[p].res.stats.total = 2
        /\ DOMAIN procs[p].res.stats.byStatus = {"todo", "done"}
        /\ DOMAIN procs[p].res.stats.byDifficulty = {"medium", "high"}

----------------------------------------------------------------------------
(* C15 *)

\* Sequences r and s hold the same records, each as many times.
Permutation(r, s) ==
    /\ Len(r) = Len(s)
    /\ \A i \in 1..Len(r) :
          Cardinality({j \in 1..Len(r) : r[j] = r[i]}) =
          Cardinality({j \in 1..Len(s) : s[j] = r[i]})

\* C15: the result of list({sortBy: 'dueDate'}) is a permutation of the tasks
\* of the cache that are not deleted, in which no task without a due date
\* precedes a task with one and the due dates are in ascending order.
C15_SortByDueDate ==
    \A p \in Procs :
        LET f == procs[p]
            r == f.res.tasks
        IN  Done(p) /\ f.op = "list" /\ f.arg = [sortBy |-> "dueDate"] /\ ~Failed(f) =>
                /\ f.res.kind = "tasks"
                /\ Permutation(r, Stringify(SelectSeq(CacheTasks,
                        LAMBDA t : ~("deleted" \in DOMAIN t /\ t.deleted = TRUE))))
                /\ \A i, j \in 1..Len(r) :
                      i < j /\ "dueDate" \in DOMAIN r[j] =>
                          "dueDate" \in DOMAIN r[i] /\ r[i].dueDate <= r[j].dueDate

\* list({sortBy: 'dueDate'}) has returned the three tasks of the cache, added
\* without a due date, with due date 2 and with due date 1, in another order.
C15_Witness ==
    \E p \in Procs :
        /\ Done(p) /\ procs[p].op = "list" /\ procs[p].arg = [sortBy |-> "dueDate"]
        /\ procs[p].res.kind = "tasks" /\ Len(procs[p].res.tasks) = 3
        /\ "dueDate" \notin DOMAIN CacheTasks[1]
        /\ "dueDate" \in DOMAIN CacheTasks[2] /\ CacheTasks[2].dueDate = 2
        /\ "dueDate" \in DOMAIN CacheTasks[3] /\ CacheTasks[3].dueDate = 1
        /\ procs[p].res.tasks[1].id = CacheTasks[3].id
        /\ procs[p].res.tasks[3].id = CacheTasks[1].id

----------------------------------------------------------------------------
(* C16 *)

\* Each of the two managers has loaded the same collection from the file and
\* its add, the operation that loaded, has returned a task.
BothAdded ==
    /\ Done(1) /\ procs[1].op = "add" /\ procs[1].res.kind = "task"
    /\ procs[1].loads = 1
    /\ manager2.frame.pc = "done" /\ manager2.frame.res.kind = "task"
    /\ manager2.frame.loads = 1
    /\ procs[1].pre = manager2.frame.pre

\* C16: when two TaskManagers on the same file have both loaded it before
\* either wrote and each has added a task, both writes succeeding, the file
\* lacks the task one of them added: what it holds is the snapshot of one
\* manager, written over the other's.
C16_LostUpdate ==
    BothAdded /\ file.kind = "json" =>
        /\ \/ file.recs = Stringify(CacheTasks)
           \/ file.recs = Stringify(manager2.tasks)
        /\ ~(Has(file.recs, procs[1].res.task.id) /\
             Has(file.recs, manager2.frame.res.task.id))

\* Both adds have returned and the file holds the second manager's task
\* without the first manager's.
C16_Witness ==
    /\ BothAdded
    /\ file.kind = "json"
    /\ Has(file.recs, manager2.frame.res.task.id)
    /\ ~Has(file.recs, procs[1].res.task.id)
    /\ Has(CacheTasks, procs[1].res.task.id)

----------------------------------------------------------------------------
(* C17 *)

ReadOps == {"findById", "list", "statistics", "highPriority", "overdue", "relatedTasks"}

\* In the step, the read operation of caller p runs from the resumption after
\* loadIfNeeded to its return.
ReadStep(p) ==
    /\ procs[p].pc = "body" /\ procs[p].op \in ReadOps
    /\ procs'[p].pc = "done"

\* The tasks of s are in the order in which add generated their ids.
InsertionOrder(s) ==
    \A i, j \in 1..Len(s) : i < j =>
        \E m, n \in 1..nextUuid : m < n /\ s[i].id = Uuid(m) /\ s[j].id = Uuid(n)

\* The cache and the file hold their tasks in insertion order.
StoredInOrder ==
    /\ InsertionOrder(CacheTasks)
    /\ file.kind = "json" => InsertionOrder(file.recs)

\* C17: on a loaded cache, findById, list (with any options), statistics,
\* highPriority, overdue and relatedTasks leave the cache's tasks, their field
\* values and their order as they were and write nothing; so the cache, and
\* the file a later add writes, hold the tasks in the order they were added,
\* whatever sorted lists were asked for.
C17_ReadsHaveNoEffect ==
    [][ /\ \A p \in Procs : ReadStep(p) =>
              /\ cache' = cache
              /\ arrs'[cache'] = arrs[cache]
              /\ file' = file
              /\ procs'[p].writes = 0
        /\ StoredInOrder' ]_vars

\* list({includeDeleted: true, sortBy: 'dueDate'}) has returned the three
\* tasks of the cache in another order than the cache's.
C17_Witness ==
    \E p \in Procs :
        /\ Done(p) /\ procs[p].op = "list"
        /\ procs[p].arg = [includeDeleted |-> TRUE, sortBy |-> "dueDate"]
        /\ procs[p].res.kind = "tasks" /\ Len(procs[p].res.tasks) = 3
        /\ procs[p].res.tasks # Stringify(CacheTasks)
        /\ InsertionOrder(CacheTasks)

----------------------------------------------------------------------------
(* C18 *)

\* Operations were called without awaiting one another, all have returned and
\* each was a mutating operation that succeeded.
AllReturned ==
    /\ overlap /\ Quiet
    /\ \A p \in Procs : Done(p) /\ MutationReturned(procs[p])

\* Every task a successful add returned is in the cache, unless a hardDelete
\* of its id returned.
AddedKept ==
    \A p \in Procs :
        procs[p].op = "add" /\ procs[p].res.kind = "task" =>
            \/ Has(CacheTasks, procs[p].res.task.id)
            \/ \E q \in Procs :
                  procs[q].op = "hardDelete" /\ procs[q].id = procs[p].res.task.id

\* C18, as claimed: when mutating operations started without awaiting one
\* another have all returned successfully, the file holds exactly the tasks
\* of the cache and every task returned by add is in the cache unless it was
\* hard-deleted.
C18_QuiescentCoherence == AllReturned => Coherent /\ AddedKept

\* In the step, the hardDelete of some caller removes the tasks with the id.
HardDeletes(id) ==
    \E p \in Procs :
        /\ procs[p].pc = "body" /\ procs[p].op = "hardDelete" /\ procs[p].id = id
        /\ procs'[p].pc # "body"

\* C18, amended: on a manager whose cache is loaded, whatever mutating
\* operations are started without awaiting one another, the task add
\* constructs is in the cache when add suspends in writeAll, and a task of
\* the cache stays in it through every step but a hardDelete of its id; so
\* every task a successful add returned is in the cache unless it was
\* hard-deleted.  (The file may hold an older snapshot than the cache.)
C18_AddedKeptLoaded ==
    [][ /\ \A p \in Procs :
              procs[p].pc = "body" /\ procs[p].op = "add" /\ procs'[p].pc = "mkdir" =>
                  Has(CacheTasks', procs'[p].res.task.id)
        /\ \A i \in 1..Len(CacheTasks) :
              Has(CacheTasks', CacheTasks[i].id) \/ HardDeletes(CacheTasks[i].id)
      ]_vars

\* Two adds called without awaiting one another on a loaded cache have both
\* returned: the cache holds both tasks, the file only one.
C18_Witness ==
    /\ AllReturned /\ AddedKept
    /\ \A p \in Procs : procs[p].op = "add" /\ procs[p].loads = 0
    /\ Len(CacheTasks) = 2
    /\ file.kind = "json" /\ Len(file.recs) = 1

----------------------------------------------------------------------------
(* C19 *)

\* In the step, the readAll that caller p awaits fails: readFile rejects with
\* an error other than ENOENT, or the content does not parse.
ReadFails(p) == ReadDone(p, FALSE) \/ (file.kind = "corrupt" /\ ReadDone(p, TRUE))

\* In the step, caller p calls an operation other than reload.
Calls(p) ==
    /\ procs[p].pc \in {"idle", "done"} /\ procs'[p].pc \notin {"idle", "done"}
    /\ procs'[p].op # "reload"

\* C19: when readAll fails during loadIfNeeded or reload, the operation fails
\* with that error having called no writeAll, the file is unchanged and the
\* cache is what it was (null for loadIfNeeded, the old collection for
\* reload); and an operation called while the cache is null reads again.
C19_FailedLoadNoWrite ==
    [][ \A p \in Procs :
          /\ ReadFails(p) =>
                /\ procs'[p].pc = "done" /\ procs'[p].res = Error("read")
                /\ procs'[p].writes = 0
                /\ file' = file /\ file = procs[p].preFile
                /\ cache' = cache /\ CacheTasks' = CacheTasks
                /\ procs[p].op # "reload" => cache' = 0
          /\ Calls(p) /\ cache = 0 =>
                procs'[p].pc = "reading" /\ procs'[p].loads = 1 ]_vars

\* After an operation that failed in its load, a second add has read again,
\* and failed again: the cache is still unloaded.
C19_Witness ==
    \E p \in Procs :
        /\ Done(p) /\ FailedWith(procs[p], "read") /\ procs[p].op = "add"
        /\ procs[p].loads = 1 /\ procs[p].writes = 0
        /\ calls = 2 /\ cache = 0

----------------------------------------------------------------------------
(* C20 *)

\* Some record of s fails the minimal-shape check.
Malformed(s) == \E i \in 1..Len(s) : ~("id" \in DOMAIN s[i] /\ "title" \in DOMAIN s[i])

\* The records of s that pass the check, in their order.
RECURSIVE WellFormed(_)
WellFormed(s) ==
    IF s = <<>> THEN <<>>
    ELSE IF "id" \in DOMAIN Head(s) /\ "title" \in DOMAIN Head(s)
         THEN <<Head(s)>> \o WellFormed(Tail(s))
         ELSE WellFormed(Tail(s))

\* C20: when the file held a record without id or without title, any
\* mutating operation that returns successfully leaves a file without such a
\* record: the file holds the tasks the operation found in the cache after
\* its mutation, and these, for the operation that loaded the file, were the
\* file's records that pass the check, in their order.
C20_MalformedDropped ==
    \A p \in Procs :
        LET f == procs[p] IN
        Done(p) /\ MutationReturned(f) =>
            /\ file.kind = "json" /\ ~Malformed(file.recs)
            /\ Mutated(f, file.recs)
            /\ f.loads = 1 /\ f.preFile.kind = "json" =>
                  SameTasks(f.pre, WellFormed(f.preFile.recs))

\* The softDelete that loaded a file with malformed records has returned:
\* the file holds the two records that passed the check, in their order.
C20_Witness ==
    \E p \in Procs :
        /\ Done(p) /\ procs[p].op = "softDelete" /\ MutationReturned(procs[p])
        /\ procs[p].loads = 1 /\ Malformed(procs[p].preFile.recs)
        /\ file.kind = "json" /\ Len(file.recs) = 2
        /\ file.recs[1].id = "a" /\ file.recs[2].id = "b"

====
